---- MODULE Spec2Model ----
(***************************************************************************)
(* A model of runner/worker.go of ghz: the request scheduler of a Worker   *)
(* (runWorker, runWorkerAsync), the call builder (makeRequest), the        *)
(* payload source (getMessages) and the streaming adapters.                *)
(*                                                                         *)
(* Workers share one request counter (Worker.reqCounter, an *int64) and    *)
(* run as goroutines; every access to memory that another goroutine can    *)
(* touch is one step, so that the interleavings of the goroutines are the  *)
(* behaviours of the model.                                                *)
(*                                                                         *)
(*   Spec        one worker, with failing payloads and templates, binary   *)
(*               and JSON data, and the rotation of JSON payloads          *)
(*   SpecShared  two workers sharing the counter, well-formed JSON data    *)
(*   SpecStream  one call of a protocol adapter on its stream              *)
(***************************************************************************)
EXTENDS Integers, Sequences, FiniteSets, TLC

\* ------------------------------------------------------------------ bounds
MaxReq == 2         \* requests one worker's policy accepts at most
MaxK0 == 1          \* the counter's value before the run is 0 or MaxK0
MaxRot == 3         \* largest len(w.arrayJSONData)
RotReqs == 7        \* requests of the sequential worker that rotates payloads
MaxInputs == 1      \* largest number of messages a decoding produces
MaxPayloads == 2    \* largest len(input) of a streaming call
MaxRecv == 2        \* messages a stream delivers at most

Workers == {1, 2}   \* the workers that can share the counter
AllFaults == {"data", "empty", "metadata", "rpc"}
FaultSets == {{}, AllFaults}

\* ------------------------------------------------------------------ values
Nil == "nil"                          \* the nil error
DecodeError == "DecodeError"          \* executeData / createPayloadsFrom* failed
TemplateError == "TemplateError"      \* executeMetadata failed
NoPayload == "NoPayload"              \* fmt.Errorf("no data provided for request")
InvocationError == "InvocationError"  \* an error of the stub or of the stream
EOF == "EOF"                          \* io.EOF
RecvError == "RecvError"              \* an error of RecvMsg other than io.EOF
SendError == "SendError"              \* an error of SendMsg other than io.EOF
NoCache == -1                         \* w.cachedMessages == nil
NoIndex == -1                         \* the rotation was not used
DecodeFails == -1                     \* the decoding returns an error, not messages

VARIABLES
    reqCounter,     \* *w.reqCounter, shared by all workers
    k0,             \* the counter's value before the run
    mode,           \* per worker: "sync" (runWorker), "async" (runWorkerAsync), "off"
    stopOnCond,     \* per worker: the stopOnCond argument
    limit,          \* per worker: the policy accepts no more than limit requests
    binary,         \* w.config.binary
    rotLen,         \* len(w.arrayJSONData)
    clientStreaming,\* w.mtd.IsClientStreaming()
    faults,         \* what the configured data, templates and server can make fail
    binOut,         \* what createPayloadsFromBin returns for w.config.data
    pc,             \* per worker: position of the scheduler loop
    n,              \* per worker: the local n
    err,            \* per worker: the local err of runWorker (a multierr, <<>> is nil)
    rErr,           \* per worker: the local rErr of runWorker declared at line 60
    ret,            \* per worker: the value the scheduler returned
    done,           \* per worker: the channel w.done
    delivered,      \* per worker: the receive of case <-w.done has happened
    reqs,           \* per worker: the requests in issue order
    cachedMessages, \* per worker: w.cachedMessages
    decodes,        \* per worker: calls of createPayloadsFromBin
    cacheWrites,    \* per worker: assignments to w.cachedMessages
    groupErr,       \* per worker: the errgroup's first error
    everTrue,       \* per worker: the policy has returned true in this run
    spun,           \* per worker: an iteration of this run ended without issuing
    \* one call of a protocol adapter on its stream
    kind,           \* "unary", "client", "server" or "bidi", from the flags of w.mtd
    inputLen,       \* len(input) of the client-streaming or bidi call
    apc,            \* position of the adapter: "off", "start", "loop", "join", "returned"
    strErr,         \* the adapter's local err
    aret,           \* the value the adapter returned
    counter,        \* the adapter's local counter
    sent,           \* the payload indices given to SendMsg, in order
    closes,         \* calls of CloseAndReceive or CloseSend
    rpc,            \* the receive goroutine of the bidi call: "none", "running", "ended"
    recvDone,       \* the channel recvDone is closed
    lastRecv,       \* the error of the last RecvMsg
    received        \* messages received

config == <<k0, mode, stopOnCond, limit, binary, rotLen, clientStreaming, faults, binOut>>

callVars == <<kind, inputLen, apc, strErr, aret, counter, sent, closes, rpc,
              recvDone, lastRecv, received>>

schedVars == <<reqCounter, config, pc, n, err, rErr, ret, done, delivered, reqs,
               cachedMessages, decodes, cacheWrites, groupErr, everTrue, spun>>

vars == <<schedVars, callVars>>

\* ------------------------------------------------------------ pure helpers

\* A broken counter: the addition is lost.
AtomicAddLost(v, delta) == v

\* atomic.AddInt64(w.reqCounter, delta): the new value, stored and returned.
AtomicAddInt64(v, delta) == v + delta

\* A broken accumulator: err = rErr, which keeps the last result only.
MultierrAppendLast(left, right) == IF right = Nil THEN <<>> ELSE <<right>>

\* multierr.Append(left, right): nil operands vanish, the rest is kept in order.
MultierrAppend(left, right) == IF right = Nil THEN left ELSE Append(left, right)

\* A broken loop body: a false policy ends the loop, whatever stopOnCond.
LoopBranchAlwaysStop(c, stop) == IF c THEN "issue" ELSE "return"

\* A broken loop body: the test of cond(...) is inverted.
LoopBranchInverted(c, stop) == IF ~c THEN "issue" ELSE IF stop THEN "return" ELSE "spin"

\* The branch of the loop body after cond(...) returned c (lines 70-79, 96-105).
LoopBranch(c, stop) == IF c THEN "issue" ELSE IF stop THEN "return" ELSE "spin"

\* A broken done case: a break, which leaves the select and not the loop.
DoneCaseBreak(m) == "select"

\* Where the loop goes when  case <-w.done  is taken (lines 67-68, 93-94):
\* runWorker returns, runWorkerAsync returns g.Wait().
DoneCase(m) == IF m = "sync" THEN "returned" ELSE "wait"

\* makeRequest line 118: the optimized path through the rotation of JSON data.
UsesRotation(bin, cs, len) == ~bin /\ ~cs /\ len > 0

\* A broken index: reqNum is not decremented.
RotationIndexNoDec(reqNum, len) == reqNum % len

\* makeRequest line 119: the index into w.arrayJSONData.
RotationIndex(reqNum, len) == (reqNum - 1) % len

\* A broken join: the scheduler returns without waiting.
AllDoneNoWait(rs) == TRUE

\* errgroup.Group.Wait returns when every function given to g.Go has returned.
AllDone(rs) == \A i \in 1..Len(rs) : rs[i].st = "done"

\* What getMessages can decode the configured JSON data to: an error, or a
\* number of messages.
DecodeOutcomes(f) ==
    (IF "data" \in f THEN {DecodeFails} ELSE {})
      \cup (IF "empty" \in f THEN {0} ELSE {})
      \cup (1..MaxInputs)

\* What executeMetadata can return for the configured metadata template.
MetadataOutcomes(f) == IF "metadata" \in f THEN {Nil, TemplateError} ELSE {Nil}

\* What the adapter of the call can return (lines 186-192).
AdapterOutcomes(f) == IF "rpc" \in f THEN {Nil, InvocationError} ELSE {Nil}

Running(w) == pc[w] \in {"select", "default", "call", "wait"}

\* ------------------------------------------------------------------- init
TypeOK ==
    /\ reqCounter \in Nat
    /\ pc \in [Workers -> {"off", "select", "default", "call", "wait", "returned"}]
    /\ done \in [Workers -> {"open", "sent"}]
    /\ cachedMessages \in [Workers -> {NoCache} \cup (0..MaxInputs)]
    /\ \A w \in Workers : n[w] = Len(reqs[w])

\* The workers are constructed and their loops are about to start
\* (lines 60-63, 86-89).
InitState ==
    /\ reqCounter = k0
    /\ pc = [w \in Workers |-> IF mode[w] = "off" THEN "off" ELSE "select"]
    /\ n = [w \in Workers |-> 0]
    /\ err = [w \in Workers |-> <<>>]
    /\ rErr = [w \in Workers |-> Nil]
    /\ ret = [w \in Workers |-> <<>>]
    /\ done = [w \in Workers |-> "open"]
    /\ delivered = [w \in Workers |-> FALSE]
    /\ reqs = [w \in Workers |-> <<>>]
    /\ cachedMessages = [w \in Workers |-> NoCache]
    /\ decodes = [w \in Workers |-> 0]
    /\ cacheWrites = [w \in Workers |-> 0]
    /\ groupErr = [w \in Workers |-> Nil]
    /\ everTrue = [w \in Workers |-> FALSE]
    /\ spun = [w \in Workers |-> FALSE]

\* No adapter call is followed.
CallOff ==
    /\ kind = "unary"
    /\ inputLen = 0
    /\ apc = "off"
    /\ strErr = Nil
    /\ aret = Nil
    /\ counter = 0
    /\ sent = <<>>
    /\ closes = 0
    /\ rpc = "none"
    /\ recvDone = FALSE
    /\ lastRecv = Nil
    /\ received = 0

\* One worker. Either its data, its templates and the server can fail, with
\* binary or JSON data; or it is the sequential worker of the rotation
\* scenario, with well-formed JSON payloads and up to RotReqs requests.
Init ==
    /\ k0 \in {0, MaxK0}
    /\ \E s \in BOOLEAN : stopOnCond = [w \in Workers |-> s]
    /\ \/ /\ \E m \in {"sync", "async"} :
               mode = [w \in Workers |-> IF w = 1 THEN m ELSE "off"]
          /\ limit = [w \in Workers |-> MaxReq]
          /\ faults \in FaultSets
          /\ binary \in BOOLEAN
          /\ binOut \in (IF binary THEN DecodeOutcomes(faults) ELSE {1})
          /\ rotLen \in {0, MaxRot}
          /\ clientStreaming \in (IF rotLen > 0 THEN BOOLEAN ELSE {FALSE})
       \/ /\ mode = [w \in Workers |-> IF w = 1 THEN "sync" ELSE "off"]
          /\ limit = [w \in Workers |-> RotReqs]
          /\ faults = {}
          /\ binary = FALSE
          /\ binOut = 1
          /\ rotLen \in 1..MaxRot
          /\ clientStreaming = FALSE
    /\ InitState
    /\ CallOff

\* Two workers of one run share the counter and are started with the same
\* stopOnCond; the payloads are well-formed JSON.
InitShared ==
    /\ k0 \in {0, MaxK0}
    /\ mode \in [Workers -> {"sync", "async"}]
    /\ \E s \in BOOLEAN : stopOnCond = [w \in Workers |-> s]
    /\ limit = [w \in Workers |-> MaxReq]
    /\ faults = {}
    /\ binary = FALSE
    /\ binOut = 1
    /\ rotLen = 0
    /\ clientStreaming = FALSE
    /\ InitState
    /\ CallOff

\* ---------------------------------------------------------------- actions

\* The owner of the running worker signals cancellation, once: it sends a
\* value on w.done, and the send waits for the worker's receive.
Stop(w) ==
    /\ Running(w)
    /\ done[w] = "open"
    /\ ~delivered[w]
    /\ done' = [done EXCEPT ![w] = "sent"]
    /\ UNCHANGED <<callVars, reqCounter, config, pc, n, err, rErr, ret, delivered, reqs,
                   cachedMessages, decodes, cacheWrites, groupErr, everTrue, spun>>

\* select { case <-w.done: ...  default: ... } (lines 66-69, 92-95).
Select(w) ==
    /\ pc[w] = "select"
    /\ IF done[w] = "sent"
       THEN /\ delivered' = [delivered EXCEPT ![w] = TRUE]
            /\ done' = [done EXCEPT ![w] = "open"]
            /\ pc' = [pc EXCEPT ![w] = DoneCase(mode[w])]
       ELSE /\ pc' = [pc EXCEPT ![w] = "default"]
            /\ UNCHANGED <<delivered, done>>
    /\ UNCHANGED <<callVars, reqCounter, config, n, err, rErr, ret, reqs, cachedMessages,
                   decodes, cacheWrites, groupErr, everTrue, spun>>

NewReq(num) ==
    [num |-> num, st |-> "new", idx |-> NoIndex, len |-> 0, rpc |-> Nil, res |-> Nil]

\* The error argument of cond: rErr in runWorker (line 70), nil in
\* runWorkerAsync (line 96).
CondErrArg(w) == IF mode[w] = "sync" THEN rErr[w] ELSE Nil

\* The count argument of cond: the local n (lines 70, 96).
CondCountArg(w) == n[w]

\* What the policy of worker w can answer: a gate that closes for good after
\* limit[w] requests, whatever the error.
Policy(w, e, cnt) == IF cnt < limit[w] THEN BOOLEAN ELSE {FALSE}

\* The default case: cond(...) and its three outcomes (lines 70-79, 96-105).
Cond(w) ==
    /\ pc[w] = "default"
    /\ \E c \in Policy(w, CondErrArg(w), CondCountArg(w)) :
         LET b == LoopBranch(c, stopOnCond[w]) IN
         /\ everTrue' = [everTrue EXCEPT ![w] = @ \/ c]
         /\ spun' = [spun EXCEPT ![w] = @ \/ (b = "spin")]
         /\ IF b = "issue"
            THEN LET reqNum == AtomicAddInt64(reqCounter, 1) IN
                 /\ reqCounter' = reqNum
                 /\ n' = [n EXCEPT ![w] = @ + 1]
                 /\ reqs' = [reqs EXCEPT ![w] = Append(@, NewReq(reqNum))]
                 /\ pc' = [pc EXCEPT ![w] = IF mode[w] = "sync" THEN "call" ELSE "select"]
                 /\ UNCHANGED ret
            ELSE /\ UNCHANGED <<reqCounter, n, reqs>>
                 /\ IF b = "return"
                    THEN IF mode[w] = "sync"
                         THEN /\ pc' = [pc EXCEPT ![w] = "returned"]
                              /\ ret' = [ret EXCEPT ![w] = err[w]]
                         ELSE /\ pc' = [pc EXCEPT ![w] = "wait"]
                              /\ UNCHANGED ret
                    ELSE /\ pc' = [pc EXCEPT ![w] = "select"]
                         /\ UNCHANGED ret
    /\ UNCHANGED <<callVars, config, err, rErr, done, delivered, cachedMessages, decodes,
                   cacheWrites, groupErr>>

\* A broken group: it keeps the last non-nil result of its tasks.
GroupLast(cur, res) == IF res = Nil THEN cur ELSE res

\* errgroup.Group keeps the first non-nil result of the functions given to
\* g.Go (line 100) and Wait returns it.
GroupFirst(cur, res) == IF cur = Nil THEN res ELSE cur

\* rErr := w.makeRequest(reqNum) (line 74) declares a new rErr in the block of
\* the if: the rErr of line 60, which cond receives, is not assigned.
OuterRErr(cur, res) == cur

\* makeRequest of worker w returns res: in runWorker the result is merged into
\* err (line 76) and the loop goes on; in runWorkerAsync the errgroup keeps
\* the first non-nil result of its tasks.
Complete(w, res) ==
    IF mode[w] = "sync"
    THEN /\ err' = [err EXCEPT ![w] = MultierrAppend(@, res)]
         /\ rErr' = [rErr EXCEPT ![w] = OuterRErr(@, res)]
         /\ pc' = [pc EXCEPT ![w] = "select"]
         /\ UNCHANGED groupErr
    ELSE /\ groupErr' = [groupErr EXCEPT ![w] = GroupFirst(@, res)]
         /\ UNCHANGED <<err, rErr, pc>>

\* The element of w.arrayJSONData request r takes (lines 118-119).
Selected(r) ==
    IF UsesRotation(binary, clientStreaming, rotLen)
    THEN RotationIndex(r.num, rotLen) ELSE NoIndex

\* The tasks of w can run getMessages at the same time and getMessages writes
\* w.cachedMessages: only then are the steps of makeRequest told apart.
Racy(w) == binary /\ mode[w] = "async"

\* The result of makeRequest from line 129 on: the metadata error, the missing
\* payload, or the local err, which is nil there: the adapter's result
\* adapterErr is assigned to _ (lines 185-193).
MakeRequestResult(mdErr, inputsLen, adapterErr) ==
    IF mdErr # Nil THEN mdErr
    ELSE IF inputsLen = 0 THEN NoPayload
    ELSE Nil

\* The adapter ran: the metadata was expanded and there is a payload.
Invoked(mdErr, inputsLen) == mdErr = Nil /\ inputsLen > 0

\* What this call of getMessages decodes to: in binary mode the bytes are
\* w.config.data, the same for every request.
Outcomes == IF binary THEN {binOut} ELSE DecodeOutcomes(faults)

\* makeRequest as one step (lines 110-196), getMessages included.
MakeRequest(w) ==
    \E i \in 1..Len(reqs[w]) :
        /\ ~Racy(w)
        /\ reqs[w][i].st = "new"
        /\ \E out \in Outcomes, mdErr \in MetadataOutcomes(faults),
              aErr \in AdapterOutcomes(faults) :
             LET cached == cachedMessages[w] # NoCache
                 failed == ~cached /\ out = DecodeFails
                 len == IF cached THEN cachedMessages[w] ELSE out
                 ran == ~failed /\ Invoked(mdErr, len)
                 res == IF failed THEN DecodeError ELSE MakeRequestResult(mdErr, len, aErr)
             IN /\ reqs' = [reqs EXCEPT ![w][i] =
                              [@ EXCEPT !.idx = Selected(reqs[w][i]), !.st = "done",
                                        !.rpc = IF ran THEN aErr ELSE Nil, !.res = res]]
                /\ decodes' = [decodes EXCEPT ![w] = IF binary /\ ~cached THEN @ + 1 ELSE @]
                /\ cachedMessages' = [cachedMessages EXCEPT ![w] =
                                        IF binary /\ ~cached /\ ~failed THEN out ELSE @]
                /\ cacheWrites' = [cacheWrites EXCEPT ![w] =
                                     IF binary /\ ~cached /\ ~failed THEN @ + 1 ELSE @]
                /\ Complete(w, res)
        /\ UNCHANGED <<callVars, reqCounter, config, n, ret, done, delivered, everTrue, spun>>

\* makeRequest up to the cache test of getMessages (lines 112-124, 199-203).
GetMessages(w) ==
    \E i \in 1..Len(reqs[w]) :
        /\ Racy(w)
        /\ reqs[w][i].st = "new"
        /\ reqs' = [reqs EXCEPT ![w][i] =
                      IF cachedMessages[w] # NoCache
                      THEN [@ EXCEPT !.idx = Selected(reqs[w][i]),
                                     !.len = cachedMessages[w], !.st = "built"]
                      ELSE [@ EXCEPT !.idx = Selected(reqs[w][i]), !.st = "decode"]]
        /\ UNCHANGED <<callVars, reqCounter, config, pc, n, err, rErr, ret, done, delivered,
                       cachedMessages, decodes, cacheWrites, groupErr, everTrue, spun>>

\* The rest of getMessages: decode, and in binary mode fill the cache
\* (lines 205-225); an error is makeRequest's result (lines 120-126).
Decode(w) ==
    \E i \in 1..Len(reqs[w]) :
        /\ Racy(w)
        /\ reqs[w][i].st = "decode"
        /\ decodes' = [decodes EXCEPT ![w] = @ + 1]
        /\ \E out \in Outcomes :
             IF out = DecodeFails
             THEN /\ reqs' = [reqs EXCEPT ![w][i].st = "done", ![w][i].res = DecodeError]
                  /\ Complete(w, DecodeError)
                  /\ UNCHANGED <<cachedMessages, cacheWrites>>
             ELSE /\ reqs' = [reqs EXCEPT ![w][i].st = "built", ![w][i].len = out]
                  /\ cachedMessages' = [cachedMessages EXCEPT ![w] = out]
                  /\ cacheWrites' = [cacheWrites EXCEPT ![w] = @ + 1]
                  /\ UNCHANGED <<err, rErr, pc, groupErr>>
        /\ UNCHANGED <<callVars, reqCounter, config, n, ret, done, delivered, everTrue, spun>>

\* makeRequest from executeMetadata to its return (lines 129-195).
Call(w) ==
    \E i \in 1..Len(reqs[w]) :
        /\ Racy(w)
        /\ reqs[w][i].st = "built"
        /\ \E mdErr \in MetadataOutcomes(faults), aErr \in AdapterOutcomes(faults) :
             LET len == reqs[w][i].len
                 res == MakeRequestResult(mdErr, len, aErr)
             IN /\ reqs' = [reqs EXCEPT ![w][i] =
                              [@ EXCEPT !.st = "done", !.len = 0,
                                        !.rpc = IF Invoked(mdErr, len) THEN aErr ELSE Nil,
                                        !.res = res]]
                /\ Complete(w, res)
        /\ UNCHANGED <<callVars, reqCounter, config, n, ret, done, delivered, cachedMessages,
                       decodes, cacheWrites, everTrue, spun>>

\* return g.Wait() (lines 94, 104): all tasks have returned; the first error.
Wait(w) ==
    /\ pc[w] = "wait"
    /\ AllDone(reqs[w])
    /\ pc' = [pc EXCEPT ![w] = "returned"]
    /\ ret' = [ret EXCEPT ![w] = IF groupErr[w] = Nil THEN <<>> ELSE <<groupErr[w]>>]
    /\ UNCHANGED <<callVars, reqCounter, config, n, err, rErr, done, delivered, reqs,
                   cachedMessages, decodes, cacheWrites, groupErr, everTrue, spun>>

Next ==
    \E w \in Workers :
        \/ Stop(w)
        \/ Select(w)
        \/ Cond(w)
        \/ Wait(w)
        \/ MakeRequest(w)
        \/ GetMessages(w)
        \/ Decode(w)
        \/ Call(w)

Spec == Init /\ [][Next]_vars

NextShared ==
    \E w \in Workers :
        \/ Stop(w)
        \/ Select(w)
        \/ Cond(w)
        \/ Wait(w)
        \/ MakeRequest(w)

SpecShared == InitShared /\ [][NextShared]_vars

\* ------------------------------------------------------- protocol adapters

\* One call of an adapter, from its entry: makeRequest has built the inputs.
InitStream ==
    /\ k0 = 0
    /\ mode = [w \in Workers |-> "off"]
    /\ stopOnCond = [w \in Workers |-> FALSE]
    /\ limit = [w \in Workers |-> 0]
    /\ faults = AllFaults
    /\ binary = FALSE
    /\ binOut = 1
    /\ rotLen = 0
    /\ kind \in {"unary", "client", "server", "bidi"}
    /\ clientStreaming = (kind \in {"client", "bidi"})
    /\ inputLen \in (IF clientStreaming THEN 0..MaxPayloads ELSE {1})
    /\ InitState
    /\ apc = "start"
    /\ strErr = Nil
    /\ aret = Nil
    /\ counter = 0
    /\ sent = <<>>
    /\ closes = 0
    /\ rpc = "none"
    /\ recvDone = FALSE
    /\ lastRecv = Nil
    /\ received = 0

\* What the stub, SendMsg and RecvMsg can return.
InvokeOutcomes == {Nil, InvocationError}
SendOutcomes == {Nil, EOF, SendError}
RecvOutcomes == (IF received < MaxRecv THEN {Nil} ELSE {}) \cup {EOF, RecvError}

\* makeUnaryRequest returns the error of InvokeRpc (lines 347-356).
UnaryReturn(resErr) == resErr

\* A broken receive loop: the error of RecvMsg is returned as it is.
ServerStreamingReturnRaw(outerErr, recvErr) ==
    IF outerErr # Nil THEN outerErr ELSE recvErr

\* makeServerStreamingRequest returns its err of line 310; the err that
\* RecvMsg sets, and that io.EOF resets to nil, is declared in the loop
\* (line 320) and is not the returned one (line 336).
ServerStreamingReturn(outerErr, recvErr) == outerErr

\* makeClientStreamingRequest returns nil (line 302).
ClientStreamingReturn(sendErr) == Nil

\* makeBidiRequest, once the stream is open, returns nil (lines 392, 446).
BidiReturn(sendErr) == Nil

\* makeUnaryRequest (lines 339-357).
MakeUnaryRequest ==
    /\ kind = "unary" /\ apc = "start"
    /\ \E e \in InvokeOutcomes :
         /\ strErr' = e
         /\ aret' = UnaryReturn(e)
    /\ apc' = "returned"
    /\ UNCHANGED <<schedVars, kind, inputLen, counter, sent, closes, rpc, recvDone,
                   lastRecv, received>>

\* makeServerStreamingRequest up to its loop (lines 306-319).
ServerInvoke ==
    /\ kind = "server" /\ apc = "start"
    /\ \E e \in InvokeOutcomes :
         /\ strErr' = e
         /\ IF e = Nil
            THEN apc' = "loop" /\ UNCHANGED aret
            ELSE apc' = "returned" /\ aret' = ServerStreamingReturn(e, Nil)
    /\ UNCHANGED <<schedVars, kind, inputLen, counter, sent, closes, rpc, recvDone,
                   lastRecv, received>>

\* One iteration of the receive loop (lines 319-336).
ServerRecv ==
    /\ kind = "server" /\ apc = "loop"
    /\ \E r \in RecvOutcomes :
         /\ lastRecv' = r
         /\ IF r = Nil
            THEN received' = received + 1 /\ UNCHANGED <<apc, aret>>
            ELSE /\ apc' = "returned"
                 /\ aret' = ServerStreamingReturn(strErr, r)
                 /\ UNCHANGED received
    /\ UNCHANGED <<schedVars, kind, inputLen, strErr, counter, sent, closes, rpc, recvDone>>

\* A broken send loop: the tests for the end of the input follow the first send.
ClientLoopBranchSendFirst(len, cnt) == IF cnt >= 1 THEN "close" ELSE "send"

\* The tests at the head of the send loop (lines 247, 259): an empty input
\* and an exhausted input lead to CloseAndReceive, the rest to SendMsg.
ClientLoopBranch(len, cnt) == IF len = 0 \/ cnt = len THEN "close" ELSE "send"

\* A broken join: the adapter does not wait for the receive goroutine.
RecvDoneNoWait(closed) == TRUE

\* <-recvDone (line 443) goes on when the channel is closed (line 406).
RecvDoneWait(closed) == closed

\* makeClientStreamingRequest up to its loop (lines 229-245).
ClientInvoke ==
    /\ kind = "client" /\ apc = "start"
    /\ \E e \in InvokeOutcomes :
         /\ strErr' = e
         /\ IF e = Nil
            THEN apc' = "loop" /\ UNCHANGED aret
            ELSE apc' = "returned" /\ aret' = ClientStreamingReturn(e)
    /\ UNCHANGED <<schedVars, kind, inputLen, counter, sent, closes, rpc, recvDone,
                   lastRecv, received>>

\* One iteration of the send loop (lines 245-302).
ClientStep ==
    /\ kind = "client" /\ apc = "loop"
    /\ IF ClientLoopBranch(inputLen, counter) = "close"
       THEN /\ closes' = closes + 1
            /\ apc' = "returned"
            /\ aret' = ClientStreamingReturn(strErr)
            /\ UNCHANGED <<strErr, counter, sent>>
       ELSE \E e \in SendOutcomes :
            /\ sent' = Append(sent, counter)
            /\ strErr' = e
            /\ closes' = IF e = EOF THEN closes + 1 ELSE closes
            /\ counter' = IF e = EOF THEN counter ELSE counter + 1
            /\ IF e = Nil
               THEN UNCHANGED <<apc, aret>>
               ELSE apc' = "returned" /\ aret' = ClientStreamingReturn(e)
    /\ UNCHANGED <<schedVars, kind, inputLen, rpc, recvDone, lastRecv, received>>

\* makeBidiRequest up to its send loop (lines 360-410): the stream is opened,
\* closed at once for an empty input, or the receive goroutine is started.
BidiInvoke ==
    /\ kind = "bidi" /\ apc = "start"
    /\ \E e \in InvokeOutcomes :
         /\ strErr' = e
         /\ IF e # Nil
            THEN /\ apc' = "returned" /\ aret' = e
                 /\ UNCHANGED <<closes, rpc>>
            ELSE IF inputLen = 0
                 THEN /\ closes' = closes + 1
                      /\ apc' = "returned" /\ aret' = Nil
                      /\ UNCHANGED rpc
                 ELSE /\ rpc' = "running"
                      /\ apc' = "loop"
                      /\ UNCHANGED <<closes, aret>>
    /\ UNCHANGED <<schedVars, kind, inputLen, counter, sent, recvDone, lastRecv, received>>

\* One iteration of the send loop, and the test that follows the loop
\* (lines 412-446).
BidiStep ==
    /\ kind = "bidi" /\ apc = "loop"
    /\ IF counter = inputLen
       THEN /\ closes' = closes + 1
            /\ apc' = "join"
            /\ UNCHANGED <<strErr, counter, sent, aret>>
       ELSE \E e \in SendOutcomes :
            /\ sent' = Append(sent, counter)
            /\ strErr' = e
            /\ counter' = counter + 1
            /\ UNCHANGED closes
            /\ IF e = Nil
               THEN UNCHANGED <<apc, aret>>
               ELSE apc' = "returned" /\ aret' = BidiReturn(e)
    /\ UNCHANGED <<schedVars, kind, inputLen, rpc, recvDone, lastRecv, received>>

\* <-recvDone and the return (lines 442-446).
BidiJoin ==
    /\ kind = "bidi" /\ apc = "join"
    /\ RecvDoneWait(recvDone)
    /\ apc' = "returned"
    /\ aret' = BidiReturn(strErr)
    /\ UNCHANGED <<schedVars, kind, inputLen, strErr, counter, sent, closes, rpc,
                   recvDone, lastRecv, received>>

\* One iteration of the receive goroutine (lines 395-410).
BidiRecv ==
    /\ kind = "bidi" /\ rpc = "running"
    /\ \E r \in RecvOutcomes :
         /\ lastRecv' = r
         /\ IF r = Nil
            THEN received' = received + 1 /\ UNCHANGED <<recvDone, rpc>>
            ELSE recvDone' = TRUE /\ rpc' = "ended" /\ UNCHANGED received
    /\ UNCHANGED <<schedVars, kind, inputLen, apc, strErr, aret, counter, sent, closes>>

NextStream ==
    \/ MakeUnaryRequest
    \/ ServerInvoke
    \/ ServerRecv
    \/ ClientInvoke
    \/ ClientStep
    \/ BidiInvoke
    \/ BidiStep
    \/ BidiJoin
    \/ BidiRecv

SpecStream == InitStream /\ [][NextStream]_vars

\* ----------------------------------------------------------------- claims

On(w) == mode[w] # "off"
Nums(w) == {reqs[w][i].num : i \in 1..Len(reqs[w])}
Increasing(w) ==
    \A i, j \in 1..Len(reqs[w]) : i < j => reqs[w][i].num < reqs[w][j].num
RECURSIVE Accepted(_)
Accepted(S) == IF S = {} THEN 0
               ELSE LET x == CHOOSE y \in S : TRUE IN n[x] + Accepted(S \ {x})
Results(w) == [i \in 1..Len(reqs[w]) |-> reqs[w][i].res]
IsError(e) == e # Nil

\* C1: with N requests accepted by all workers together, the sequence numbers
\* obtained are exactly k+1 .. k+N: no number is obtained by two requests, none
\* is skipped, every makeRequest runs with the number its iteration obtained,
\* and each worker obtains its numbers in strictly increasing order.
C1_GlobalNumbering ==
    /\ UNION {Nums(w) : w \in Workers} = (k0 + 1)..(k0 + Accepted(Workers))
    /\ \A w, v \in Workers : w # v => Nums(w) \cap Nums(v) = {}
    /\ \A w \in Workers : Cardinality(Nums(w)) = n[w] /\ Increasing(w)
    /\ reqCounter = k0 + Accepted(Workers)

\* Both workers obtained numbers in turn and every request has been made.
C1_Witness ==
    /\ mode[1] = "sync" /\ mode[2] = "async"
    /\ Len(reqs[1]) = 2 /\ Len(reqs[2]) = 2
    /\ reqs[1][1].num < reqs[2][1].num
    /\ reqs[2][1].num < reqs[1][2].num
    /\ reqs[1][2].num < reqs[2][2].num
    /\ \A w \in Workers : AllDone(reqs[w])

\* C2 as claimed: a worker that accepted N requests holds exactly k+1 .. k+N,
\* also while another worker increments the counter.
C2_Original == \A w \in Workers : Nums(w) = (k0 + 1)..(k0 + n[w])

\* C2 as amended: a worker's N numbers are increasing, without duplicates and
\* within k+1 .. k+N+F, where F is the number of requests the other workers
\* accepted; they are exactly k+1 .. k+N when F = 0.
C2_WorkerNumbering ==
    \A w \in Workers :
        LET F == Accepted(Workers \ {w}) IN
        /\ Nums(w) \subseteq (k0 + 1)..(k0 + n[w] + F)
        /\ Cardinality(Nums(w)) = n[w]
        /\ Increasing(w)
        /\ F = 0 => Nums(w) = (k0 + 1)..(k0 + n[w])

\* A worker whose two numbers are separated by a number of the other worker.
C2_Witness ==
    /\ Len(reqs[1]) = 2 /\ Len(reqs[2]) = 1
    /\ reqs[1][1].num = k0 + 1
    /\ reqs[2][1].num = k0 + 2
    /\ reqs[1][2].num = k0 + 3

\* C3: in non-binary mode, for a method that is not client-streaming and a
\* rotation of M > 0 elements, the request numbered s takes element
\* (s - 1) mod M: numbers 1..M take 0..M-1, M+1 takes 0 again, and seven
\* sequential requests from counter 0 with M = 3 take 0,1,2,0,1,2,0.
C3_RoundRobin ==
    \A w \in Workers : \A i \in 1..Len(reqs[w]) :
        LET r == reqs[w][i] IN
        (r.st # "new" /\ ~binary /\ ~clientStreaming /\ rotLen > 0) =>
            /\ r.idx \in 0..(rotLen - 1)
            /\ \E q \in 0..r.num : r.num - 1 = q * rotLen + r.idx
            /\ r.num \in 1..rotLen => r.idx = r.num - 1
            /\ r.num = rotLen + 1 => r.idx = 0
            /\ (k0 = 0 /\ rotLen = 3 /\ mode[w] = "sync" /\ i <= 7) =>
                   r.idx = <<0, 1, 2, 0, 1, 2, 0>>[i]

\* The sequential worker has made seven requests from counter 0 with M = 3.
C3_Witness ==
    /\ k0 = 0 /\ rotLen = 3 /\ mode[1] = "sync"
    /\ Len(reqs[1]) = 7
    /\ AllDone(reqs[1])
    /\ [i \in 1..7 |-> reqs[1][i].idx] = <<0, 1, 2, 0, 1, 2, 0>>

\* C4: in binary mode the payloads are decoded once per worker and the cache
\* is written at most once, however many requests run and also when tasks of
\* one worker run getMessages at the same time. (Stated for the runs whose
\* decoding succeeded, so that the cache is filled.)
C4_DecodeOnce ==
    \A w \in Workers :
        (binary /\ On(w)) =>
            /\ cacheWrites[w] <= 1
            /\ cachedMessages[w] # NoCache => decodes[w] = 1

\* C5: once the receive of w.done has happened in runWorker, the worker
\* increments the counter no more, starts no makeRequest, and has returned.
C5_NoRequestAfterDone ==
    /\ [](\A w \in Workers : (mode[w] = "sync" /\ delivered[w]) => pc[w] = "returned")
    /\ [][\A w \in Workers :
            (mode[w] = "sync" /\ delivered[w]) =>
                (reqs'[w] = reqs[w] /\ n'[w] = n[w] /\ reqCounter' = reqCounter)]_vars

\* runWorker received the signal after it had made a request.
C5_Witness ==
    /\ mode[1] = "sync" /\ delivered[1] /\ pc[1] = "returned"
    /\ Len(reqs[1]) >= 1

\* C6: when runWorkerAsync has returned, by cancellation or by the policy,
\* every task it spawned has finished its makeRequest.
C6_JoinBeforeReturn ==
    \A w \in Workers :
        (mode[w] = "async" /\ pc[w] = "returned") =>
            \A i \in 1..Len(reqs[w]) : reqs[w][i].st = "done"

\* runWorkerAsync returned after cancellation with two tasks spawned.
C6_Witness ==
    /\ mode[1] = "async" /\ pc[1] = "returned" /\ delivered[1]
    /\ Len(reqs[1]) = 2

\* C7: while the policy has returned false only, no request is issued, the
\* counter is unchanged and the accumulated error is nil; with stopOnCond the
\* first evaluation ends the loop, and the scheduler returns nil.
C7_PolicyFalse ==
    /\ [](\A w \in Workers :
            (On(w) /\ ~everTrue[w]) =>
                /\ reqs[w] = <<>> /\ n[w] = 0 /\ reqCounter = k0
                /\ pc[w] = "returned" => ret[w] = <<>>)
    /\ [][\A w \in Workers :
            (stopOnCond[w] /\ pc[w] = "default" /\ pc'[w] # "default" /\ ~everTrue'[w]) =>
                pc'[w] = DoneCase(mode[w])]_vars

\* runWorkerAsync returned because its policy said false at the first evaluation.
C7_Witness ==
    /\ mode[1] = "async" /\ stopOnCond[1] /\ ~everTrue[1] /\ ~delivered[1]
    /\ pc[1] = "returned" /\ ret[1] = <<>>

\* C8: when runWorker stops because of cancellation, it returns the errors
\* accumulated from the requests made so far.
C8_CancelReturnsErrors ==
    \A w \in Workers :
        (mode[w] = "sync" /\ pc[w] = "returned" /\ delivered[w]) => ret[w] = err[w]

\* C9: runWorker merges the result of every makeRequest into err, in issue
\* order and dropping none, and goes on to the next iteration after an error;
\* when the policy ends the run it returns all of them (nil when there is none).
C9_AllErrorsKept ==
    \A w \in Workers :
        mode[w] = "sync" =>
            /\ pc[w] # "call" => err[w] = SelectSeq(Results(w), IsError)
            /\ (pc[w] = "returned" /\ ~delivered[w]) =>
                   ret[w] = SelectSeq(Results(w), IsError)

\* The policy ended a run whose first request failed and whose second request
\* failed differently.
C9_Witness ==
    /\ mode[1] = "sync" /\ pc[1] = "returned" /\ ~delivered[1]
    /\ Len(reqs[1]) = 2
    /\ reqs[1][1].res = TemplateError
    /\ reqs[1][2].res = NoPayload
    /\ ret[1] = <<TemplateError, NoPayload>>

\* C10: an end of stream met while receiving is not returned as an error:
\* makeServerStreamingRequest returns nil when its receive loop ends with
\* io.EOF, and makeBidiRequest returns nil when its receive goroutine ends
\* with io.EOF.
C10_EOFIsNoError ==
    /\ (kind = "server" /\ apc = "returned" /\ lastRecv = EOF) => aret = Nil
    /\ (kind = "bidi" /\ apc = "returned" /\ rpc = "ended" /\ lastRecv = EOF) =>
           aret = Nil

\* A server stream delivered a message and then ended, and the call returned.
C10_Witness ==
    /\ kind = "server" /\ apc = "returned"
    /\ received >= 1 /\ lastRecv = EOF

\* The stream of the call was opened: the Invoke of the adapter returned nil.
Opened == apc # "start" /\ strErr # InvocationError

\* C11: a client-streaming call with an empty input gives nothing to SendMsg
\* and returns nil; on the stream it opened it calls CloseAndReceive, once.
C11_EmptyClientStream ==
    (kind = "client" /\ inputLen = 0) =>
        /\ sent = <<>>
        /\ apc = "returned" => (aret = Nil /\ (Opened => closes = 1))

\* The call with an empty input on an open stream has returned.
C11_Witness ==
    /\ kind = "client" /\ inputLen = 0 /\ Opened
    /\ apc = "returned" /\ closes = 1 /\ sent = <<>> /\ aret = Nil

\* C12: a bidi call with n >= 1 payloads in which no send fails gives the
\* payloads 0 .. n-1 to SendMsg in this order, each once, then calls CloseSend
\* once, sends nothing after it, and returns only after the receive goroutine
\* met a receive error or io.EOF and closed recvDone.
C12_BidiSendsThenJoins ==
    /\ [](( kind = "bidi" /\ inputLen >= 1 /\ apc = "returned" /\ strErr = Nil) =>
            /\ sent = [i \in 1..inputLen |-> i - 1]
            /\ closes = 1
            /\ recvDone /\ rpc = "ended" /\ lastRecv \in {EOF, RecvError})
    /\ [][(kind = "bidi" /\ closes >= 1) => (sent' = sent /\ closes' = closes)]_vars

\* The call with two payloads returned after the stream had delivered a
\* message and ended.
C12_Witness ==
    /\ kind = "bidi" /\ inputLen = 2 /\ apc = "returned" /\ strErr = Nil
    /\ sent = <<0, 1>> /\ closes = 1
    /\ received >= 1 /\ lastRecv = EOF /\ recvDone

\* C13: runWorkerAsync returns nil when no task returned an error; otherwise
\* it returns one error, that of the first task that finished with an error:
\* the group takes the error of the task that finishes while the group has
\* none, keeps it from then on, and the errors of the other tasks are dropped.
C13_FirstErrorOnly ==
    /\ [](\A w \in Workers :
            (mode[w] = "async" /\ pc[w] = "returned") =>
                IF SelectSeq(Results(w), IsError) = <<>>
                THEN ret[w] = <<>>
                ELSE ret[w] = <<groupErr[w]>>)
    /\ [][\A w \in Workers :
            mode[w] = "async" =>
                /\ groupErr[w] # Nil => groupErr'[w] = groupErr[w]
                /\ (groupErr[w] = Nil /\ groupErr'[w] # Nil) =>
                       \E i \in 1..Len(reqs[w]) :
                           /\ reqs[w][i].st # "done"
                           /\ reqs'[w][i].st = "done"
                           /\ reqs'[w][i].res = groupErr'[w]
                /\ (groupErr'[w] = Nil) =>
                       \A i \in 1..Len(reqs'[w]) :
                           reqs'[w][i].st = "done" => reqs'[w][i].res = Nil]_vars

\* Two tasks failed differently and the error of one of them was returned.
C13_Witness ==
    /\ mode[1] = "async" /\ pc[1] = "returned"
    /\ Len(reqs[1]) = 2
    /\ reqs[1][1].res = NoPayload
    /\ reqs[1][2].res = TemplateError
    /\ ret[1] = <<TemplateError>>

\* The result of the most recent makeRequest of worker w, nil before the first.
LastResult(w) == IF reqs[w] = <<>> THEN Nil ELSE reqs[w][Len(reqs[w])].res

\* C14: whenever runWorker is about to evaluate the policy, the error it
\* passes is the result of its most recent makeRequest (nil before the first
\* request) and the count it passes is the number of requests it has issued.
C14_CondGetsLastError ==
    \A w \in Workers :
        (mode[w] = "sync" /\ pc[w] = "default") =>
            /\ CondErrArg(w) = LastResult(w)
            /\ CondCountArg(w) = Len(reqs[w])

\* C15: a server-streaming call on an opened stream whose receive loop ends
\* with an error other than io.EOF returns that error.
C15_RecvErrorReturned ==
    (kind = "server" /\ apc = "returned" /\ Opened /\ lastRecv = RecvError) =>
        aret = RecvError

\* C16: a bidi call that started its receive goroutine does not return
\* before the goroutine has closed recvDone, also when a send failed.
C16_RecvJoined ==
    (kind = "bidi" /\ apc = "returned" /\ rpc # "none") =>
        (recvDone /\ rpc = "ended")

\* C17: a client-streaming or bidi call in which a send on the opened stream
\* failed returns the error of that send.
C17_SendErrorReturned ==
    (kind \in {"client", "bidi"} /\ apc = "returned" /\ Opened
        /\ sent # <<>> /\ strErr # Nil) => aret = strErr

\* C18: when the adapter of a request returned an error, makeRequest returns
\* that error, and runWorker has it in the error it accumulates.
C18_AdapterErrorFlows ==
    \A w \in Workers : \A i \in 1..Len(reqs[w]) :
        (reqs[w][i].st = "done" /\ reqs[w][i].rpc # Nil) =>
            /\ reqs[w][i].res = reqs[w][i].rpc
            /\ (mode[w] = "sync" /\ pc[w] # "call") =>
                   \E j \in 1..Len(err[w]) : err[w][j] = reqs[w][i].rpc

\* C19: a client-streaming or bidi call on an opened stream has called
\* CloseAndReceive or CloseSend exactly once when it returns, whatever the
\* sends returned.
C19_ClosedOnce ==
    (kind \in {"client", "bidi"} /\ apc = "returned" /\ Opened) => closes = 1

\* A step of worker w that leaves the default case.
CondStep(w) == pc[w] = "default" /\ pc'[w] # "default"

\* A step of worker w that issues nothing and goes back to the select.
NothingIssued(w) ==
    /\ reqCounter' = reqCounter
    /\ n'[w] = n[w]
    /\ err'[w] = err[w]
    /\ reqs'[w] = reqs[w]
    /\ ret'[w] = ret[w]
    /\ pc'[w] = "select"

\* C20: without stopOnCond, an evaluation of the policy either issues one
\* request or issues nothing: the counter, n, the accumulated error and the
\* requests are unchanged and the loop is at its select again; it issues
\* nothing when the policy is false, as it is once the gate has closed; and
\* the scheduler returns only when the cancellation signal was received.
C20_SpinWithoutIssuing ==
    /\ [](\A w \in Workers :
            (On(w) /\ ~stopOnCond[w] /\ pc[w] = "returned") => delivered[w])
    /\ [][\A w \in Workers :
            (On(w) /\ ~stopOnCond[w] /\ CondStep(w)) =>
                /\ NothingIssued(w) \/ (n'[w] = n[w] + 1 /\ Len(reqs'[w]) = n[w] + 1)
                /\ TRUE \notin Policy(w, CondErrArg(w), CondCountArg(w)) => NothingIssued(w)]_vars

\* Without stopOnCond, runWorker made all the requests its policy accepts,
\* went on evaluating the policy, and returned on cancellation.
C20_Witness ==
    /\ mode[1] = "sync" /\ ~stopOnCond[1] /\ limit[1] = MaxReq
    /\ Len(reqs[1]) = MaxReq
    /\ spun[1]
    /\ pc[1] = "returned" /\ delivered[1]

====
